---- MODULE Spec2Model ----
(***************************************************************************)
(* A model of lru_cache.c: the hash index (bucket chains), the doubly      *)
(* linked recency list, the statistics block and the public operations,    *)
(* run by one caller, next to a list-based reference LRU.                  *)
(*                                                                         *)
(* Buffers are byte sequences.  A pointer to a node is a node id, NULL is  *)
(* 0.  A bucket chain is the sequence of the nodes of its cells, first     *)
(* cell first.  malloc returns the lowest free node id.  An allocation     *)
(* failure is an input of the call: failAt = i makes the i-th allocation   *)
(* of the call return NULL, failAt = 0 makes none fail.                    *)
(***************************************************************************)
EXTENDS Integers, Sequences, FiniteSets, TLC

(* ---- bounds of the model ---- *)
MaxOps == 4
MaxThreadOps == 3

(* threads calling into one cache *)
NThreads == 2
Threads == 1..NThreads

(* ---- program constants ---- *)
NULL == 0
LRU_SUCCESS == 0
LRU_ERROR_NOMEM == -1
LRU_ERROR_INVALID_ARG == -2
LRU_ERROR_NOT_FOUND == -3
LRU_CACHE_MIN_CAPACITY == 1
LRU_CACHE_DEFAULT_CAPACITY == 1024

(* Keys and values the caller passes: byte strings of one or two bytes.    *)
Keys == {<<1>>, <<2>>, <<3>>}
FillKeys == Keys \cup {<<1, 1>>, <<2, 1>>}

(* A cache is created with a capacity of at most the number of keys the    *)
(* caller uses: a larger one is never full.                                *)
MaxCapacity == Cardinality(Keys)
Values == {<<7>>, <<8, 9>>}

NodeIds == 1..(MaxCapacity + 1)
FailPoints == 0..4
Capacities == LRU_CACHE_MIN_CAPACITY..MaxCapacity

VARIABLES
    cache,      \* struct lru_cache
    node,       \* the heap of struct lru_node, by node id
    cb,         \* the eviction callback's invocations during the last call
    ev,         \* the entries evict_lru removed during the last call
    out,        \* the buffer the last get/peek handed to the caller
    last,       \* the last call: its name, arguments and return value
    ref,        \* the reference LRU run side by side
    fill,       \* the puts of the fill scenario, in order
    nops,       \* calls returned so far
    lock,       \* cache->lock: the thread holding it for writing, and how
                \* often each thread holds it for reading
    thr,        \* where each thread is inside a call of its own
    iter        \* the iterator of each thread

vars == <<cache, node, cb, ev, out, last, ref, fill, nops, lock, thr, iter>>

(* what only several threads and iterators change *)
conc == <<lock, thr, iter>>

FreeNode == [key |-> <<>>, key_size |-> 0, value |-> <<>>, value_size |-> 0,
             prev |-> NULL, next |-> NULL]

NoOut == [alias |-> NULL, data |-> <<>>, size |-> 0]

ZeroStats == [hits |-> 0, misses |-> 0, evictions |-> 0, insertions |-> 0,
              deletions |-> 0, collisions |-> 0, current_size |-> 0,
              peak_size |-> 0]

(* ---- helpers of the C code ---- *)

(* malloc + memcpy of the first size bytes *)
default_copy(data, size) == SubSeq(data, 1, size)

(* unsigned long arithmetic wraps at 2^64.  The model keeps the low        *)
(* HashBits bits of the hash: they decide the bucket, hash % table length, *)
(* for every table length that is a power of two up to 2^HashBits.         *)
HashBits == 25

RECURSIVE default_hash_from(_, _, _, _)
default_hash_from(hash, key, i, key_size) ==
    IF i > key_size THEN hash
    ELSE default_hash_from((hash * 32 + hash + key[i]) % (2 ^ HashBits),
                           key, i + 1, key_size)

default_hash(key, key_size) == default_hash_from(5381, key, 1, key_size)

default_compare(key1, size1, key2, size2) ==
    IF size1 # size2 THEN size1 - size2
    ELSE IF \A i \in 1..size1 : key1[i] = key2[i] THEN 0
    ELSE LET d == CHOOSE i \in 1..size1 :
                      /\ key1[i] # key2[i]
                      /\ \A j \in 1..(i - 1) : key1[j] = key2[j]
         IN key1[d] - key2[d]

(* Function pointers are the names of the functions; NoFn is the null     *)
(* pointer.  A caller's own hash and comparison: the first byte of the key *)
(* decides.  A caller's own allocator functions do what the default ones   *)
(* do.                                                                     *)
NoFn == "NULL"

custom_hash(key, key_size) == key[1]

custom_compare(key1, size1, key2, size2) == key1[1] - key2[1]

DefaultAllocator ==
    [malloc_fn |-> "default_malloc", free_fn |-> "default_free",
     copy_fn |-> "default_copy", destroy_fn |-> "default_destroy"]

RECURSIVE BitOr(_, _)
BitOr(a, b) ==
    IF a = 0 THEN b
    ELSE IF b = 0 THEN a
    ELSE (IF a % 2 = 1 \/ b % 2 = 1 THEN 1 ELSE 0) + 2 * BitOr(a \div 2, b \div 2)

calculate_hash_table_size(capacity) ==
    LET s0 == (capacity * 4) \div 3     \* (size_t) (capacity / 0.75)
        s1 == s0 - 1
        s2 == BitOr(s1, s1 \div 2)
        s3 == BitOr(s2, s2 \div 4)
        s4 == BitOr(s3, s3 \div 16)
        s5 == BitOr(s4, s4 \div 256)
        s6 == BitOr(s5, s5 \div 65536)
    IN s6 + 1

IsFree(st, n) == st.node[n].key_size = 0

default_malloc(st) ==
    IF \E n \in DOMAIN st.node : IsFree(st, n)
    THEN CHOOSE n \in DOMAIN st.node :
             IsFree(st, n) /\ \A m \in DOMAIN st.node : IsFree(st, m) => n <= m
    ELSE NULL

(* create_node once malloc has returned n *)
create_node_at(st, n, key, key_size, value, value_size, failAt) ==
    IF n = NULL THEN [st |-> st, node |-> NULL]
    ELSE IF failAt = 2 THEN [st |-> st, node |-> NULL]
    ELSE IF failAt = 3 THEN [st |-> st, node |-> NULL]
    ELSE [st |-> [st EXCEPT !.node[n] =
                     [key |-> default_copy(key, key_size),
                      key_size |-> key_size,
                      value |-> default_copy(value, value_size),
                      value_size |-> value_size,
                      prev |-> NULL, next |-> NULL]],
          node |-> n]

create_node(st, key, key_size, value, value_size, failAt) ==
    create_node_at(st, IF failAt = 1 THEN NULL ELSE default_malloc(st),
                   key, key_size, value, value_size, failAt)

destroy_node(st, n) ==
    IF n = NULL THEN st ELSE [st EXCEPT !.node[n] = FreeNode]

(* mutant: the successor's back link is left pointing at the node *)
remove_from_list_fwd(st, n) ==
    IF st.node[n].prev # NULL
    THEN [st EXCEPT !.node[st.node[n].prev].next = st.node[n].next]
    ELSE [st EXCEPT !.c.head = st.node[n].next]

remove_from_list(st, n) ==
    LET nd == st.node[n]
        s1 == IF nd.prev # NULL
              THEN [st EXCEPT !.node[nd.prev].next = nd.next]
              ELSE [st EXCEPT !.c.head = nd.next]
    IN IF nd.next # NULL
       THEN [s1 EXCEPT !.node[nd.next].prev = nd.prev]
       ELSE [s1 EXCEPT !.c.tail = nd.prev]

add_to_front(st, n) ==
    LET s1 == [st EXCEPT !.node[n].next = st.c.head, !.node[n].prev = NULL]
        s2 == IF st.c.head # NULL
              THEN [s1 EXCEPT !.node[st.c.head].prev = n]
              ELSE s1
        s3 == [s2 EXCEPT !.c.head = n]
    IN IF st.c.tail = NULL THEN [s3 EXCEPT !.c.tail = n] ELSE s3

(* mutant: get and put leave the entry where it is *)
move_to_front_skip(st, n) == st

move_to_front(st, n) ==
    IF st.c.head = n THEN st
    ELSE add_to_front(remove_from_list(st, n), n)

(* cache->hash_fn (key, key_size) % cache->hash_table_size *)
hash_key(st, key, key_size) ==
    (IF st.c.hash_fn = "default_hash"
     THEN default_hash(key, key_size)
     ELSE custom_hash(key, key_size)) % st.c.hash_table_size

(* compare_fn (entry->node->key, entry->node->key_size, key, key_size) == 0 *)
KeyMatches(st, n, key, key_size) ==
    (IF st.c.compare_fn = "default_compare"
     THEN default_compare(st.node[n].key, st.node[n].key_size, key, key_size)
     ELSE custom_compare(st.node[n].key, st.node[n].key_size, key, key_size))
        = 0

(* The walk of one chain stops at cell pos: the first cell whose node has  *)
(* the key, or Len + 1 when the walk runs off the end.                     *)
ChainPos(st, chain, key, key_size) ==
    IF \E i \in 1..Len(chain) : KeyMatches(st, chain[i], key, key_size)
    THEN CHOOSE i \in 1..Len(chain) :
             /\ KeyMatches(st, chain[i], key, key_size)
             /\ \A j \in 1..(i - 1) : ~KeyMatches(st, chain[j], key, key_size)
    ELSE Len(chain) + 1

(* Every cell the walk passed counts as a collision. *)
FindResult(st, hash, chain, pos) ==
    [st |-> IF st.c.track_stats
            THEN [st EXCEPT !.c.stats.collisions = @ + (pos - 1)]
            ELSE st,
     node |-> IF pos <= Len(chain) THEN chain[pos] ELSE NULL,
     hash |-> hash,
     pos |-> pos]

FindInBucket(st, hash, key, key_size) ==
    FindResult(st, hash, st.c.hash_table[hash],
               ChainPos(st, st.c.hash_table[hash], key, key_size))

find_in_hash_table(st, key, key_size) ==
    FindInBucket(st, hash_key(st, key, key_size), key, key_size)

add_to_hash_table(st, n, failAt) ==
    IF failAt = 4 THEN [st |-> st, result |-> LRU_ERROR_NOMEM]
    ELSE [st |-> [st EXCEPT
                    !.c.hash_table[hash_key(st, st.node[n].key,
                                            st.node[n].key_size)] = <<n>> \o @],
          result |-> LRU_SUCCESS]

(* *entry_ptr = entry->next, when the walk f stopped at a cell *)
Unchain(f) ==
    IF f.pos <= Len(f.st.c.hash_table[f.hash])
    THEN [f.st EXCEPT !.c.hash_table[f.hash] =
             SubSeq(@, 1, f.pos - 1) \o SubSeq(@, f.pos + 1, Len(@))]
    ELSE f.st

(* mutant: the chain cell of the node stays in its bucket *)
remove_from_hash_table_skip(st, n) == st

remove_from_hash_table(st, n) ==
    Unchain(find_in_hash_table(st, st.node[n].key, st.node[n].key_size))

Entry(st, n) ==
    [key |-> default_copy(st.node[n].key, st.node[n].key_size),
     value |-> default_copy(st.node[n].value, st.node[n].value_size)]

(* mutant: the callback is not invoked *)
CallEvictionFn_never(st, n) == st

(* cache->eviction_fn (lru_node->key, ..., lru_node->value, ...) *)
CallEvictionFn(st, n) ==
    IF st.c.eviction_fn THEN [st EXCEPT !.cb = Append(@, Entry(st, n))] ELSE st

CountEviction(st) ==
    IF st.c.track_stats THEN [st EXCEPT !.c.stats.evictions = @ + 1] ELSE st

Shrink(st) == [st EXCEPT !.c.size = @ - 1]

Grow(st) == [st EXCEPT !.c.size = @ + 1]

(* evict_lru on the node lru_node *)
EvictNode(st, lru_node) ==
    destroy_node(
        Shrink(CountEviction(
            remove_from_list(
                remove_from_hash_table(
                    [CallEvictionFn(st, lru_node) EXCEPT
                        !.ev = Append(@, Entry(st, lru_node))],
                    lru_node),
                lru_node))),
        lru_node)

(* mutant: the victim is the head of the list *)
evict_lru_mru(st) ==
    IF st.c.head = NULL THEN [st |-> st, result |-> LRU_ERROR_NOT_FOUND]
    ELSE [st |-> EvictNode(st, st.c.head), result |-> LRU_SUCCESS]

evict_lru(st) ==
    IF st.c.tail = NULL THEN [st |-> st, result |-> LRU_ERROR_NOT_FOUND]
    ELSE [st |-> EvictNode(st, st.c.tail), result |-> LRU_SUCCESS]

(* ---- the public operations, as functions of the state ---- *)

lru_cache_create(capacity) ==
    LET cap == IF capacity < LRU_CACHE_MIN_CAPACITY
               THEN LRU_CACHE_DEFAULT_CAPACITY
               ELSE capacity
    IN [capacity |-> cap,
        size |-> 0,
        hash_table_size |-> calculate_hash_table_size(cap),
        head |-> NULL,
        tail |-> NULL,
        hash_table |-> [i \in 0..(calculate_hash_table_size(cap) - 1) |-> <<>>],
        allocator |-> DefaultAllocator,
        hash_fn |-> "default_hash",
        compare_fn |-> "default_compare",
        eviction_fn |-> FALSE,
        stats |-> ZeroStats,
        thread_safe |-> TRUE,
        track_stats |-> TRUE]

(* mutant: peak_size follows the size instead of its maximum *)
(* each function of the allocator that is not null replaces the cache's *)
SetAllocatorFields(st, allocator) ==
    [st EXCEPT !.c.allocator =
        [f \in DOMAIN @ |-> IF allocator[f] # NoFn THEN allocator[f] ELSE @[f]]]

(* allocator points to a struct: <<>> is the null pointer, <<a>> points to *)
(* the struct a                                                            *)
lru_cache_set_allocator(st, allocator) ==
    IF allocator = <<>> THEN [st |-> st, result |-> LRU_ERROR_INVALID_ARG]
    ELSE IF st.c.size > 0 THEN [st |-> st, result |-> LRU_ERROR_INVALID_ARG]
    ELSE [st |-> SetAllocatorFields(st, allocator[1]), result |-> LRU_SUCCESS]

lru_cache_set_hash_function(st, hash_fn) ==
    IF hash_fn = NoFn THEN [st |-> st, result |-> LRU_ERROR_INVALID_ARG]
    ELSE IF st.c.size > 0 THEN [st |-> st, result |-> LRU_ERROR_INVALID_ARG]
    ELSE [st |-> [st EXCEPT !.c.hash_fn = hash_fn], result |-> LRU_SUCCESS]

lru_cache_set_compare_function(st, compare_fn) ==
    IF compare_fn = NoFn THEN [st |-> st, result |-> LRU_ERROR_INVALID_ARG]
    ELSE IF st.c.size > 0 THEN [st |-> st, result |-> LRU_ERROR_INVALID_ARG]
    ELSE [st |-> [st EXCEPT !.c.compare_fn = compare_fn],
          result |-> LRU_SUCCESS]

CountInsertion_nomax(st) ==
    IF st.c.track_stats
    THEN [st EXCEPT !.c.stats.insertions = @ + 1,
                    !.c.stats.current_size = st.c.size,
                    !.c.stats.peak_size = st.c.size]
    ELSE st

CountInsertion(st) ==
    IF st.c.track_stats
    THEN [st EXCEPT !.c.stats.insertions = @ + 1,
                    !.c.stats.current_size = st.c.size,
                    !.c.stats.peak_size = IF st.c.size > @ THEN st.c.size ELSE @]
    ELSE st

(* put, the key found in node n: replace the value, move to front *)
PutUpdate(st, n, value, value_size, failAt) ==
    IF failAt = 1 THEN [st |-> st, result |-> LRU_ERROR_NOMEM]
    ELSE [st |-> move_to_front(
                    [st EXCEPT !.node[n].value = default_copy(value, value_size),
                               !.node[n].value_size = value_size],
                    n),
          result |-> LRU_SUCCESS]

(* put, after add_to_hash_table returned a *)
PutLinked(a, n) ==
    IF a.result # LRU_SUCCESS
    THEN [st |-> destroy_node(a.st, n), result |-> a.result]
    ELSE [st |-> CountInsertion(Grow(add_to_front(a.st, n))),
          result |-> LRU_SUCCESS]

(* put, after evict_lru returned e *)
PutEvicted(e, n, failAt) ==
    IF e.result # LRU_SUCCESS
    THEN [st |-> destroy_node(e.st, n), result |-> e.result]
    ELSE PutLinked(add_to_hash_table(e.st, n, failAt), n)

(* mutant: put evicts only when size > capacity *)
PutCreated_gt(cn, failAt) ==
    IF cn.node = NULL THEN [st |-> cn.st, result |-> LRU_ERROR_NOMEM]
    ELSE IF cn.st.c.size > cn.st.c.capacity
    THEN PutEvicted(evict_lru(cn.st), cn.node, failAt)
    ELSE PutLinked(add_to_hash_table(cn.st, cn.node, failAt), cn.node)

(* mutant: put evicts one entry too early *)
PutCreated_early(cn, failAt) ==
    IF cn.node = NULL THEN [st |-> cn.st, result |-> LRU_ERROR_NOMEM]
    ELSE IF cn.st.c.size + 1 >= cn.st.c.capacity
    THEN PutEvicted(evict_lru(cn.st), cn.node, failAt)
    ELSE PutLinked(add_to_hash_table(cn.st, cn.node, failAt), cn.node)

(* put, after create_node returned cn *)
PutCreated(cn, failAt) ==
    IF cn.node = NULL THEN [st |-> cn.st, result |-> LRU_ERROR_NOMEM]
    ELSE IF cn.st.c.size >= cn.st.c.capacity
    THEN PutEvicted(evict_lru(cn.st), cn.node, failAt)
    ELSE PutLinked(add_to_hash_table(cn.st, cn.node, failAt), cn.node)

(* mutant: put does not look at what the lookup found *)
PutFound_new(f, key, key_size, value, value_size, failAt) ==
    PutCreated(create_node(f.st, key, key_size, value, value_size, failAt),
               failAt)

(* put, after find_in_hash_table returned f *)
PutFound(f, key, key_size, value, value_size, failAt) ==
    IF f.node # NULL
    THEN PutUpdate(f.st, f.node, value, value_size, failAt)
    ELSE PutCreated(create_node(f.st, key, key_size, value, value_size, failAt),
                    failAt)

lru_cache_put(st, key, key_size, value, value_size, failAt) ==
    IF key_size = 0 \/ value_size = 0
    THEN [st |-> st, result |-> LRU_ERROR_INVALID_ARG]
    ELSE PutFound(find_in_hash_table(st, key, key_size),
                  key, key_size, value, value_size, failAt)

CountMiss(st) ==
    IF st.c.track_stats THEN [st EXCEPT !.c.stats.misses = @ + 1] ELSE st

CountHit(st) ==
    IF st.c.track_stats THEN [st EXCEPT !.c.stats.hits = @ + 1] ELSE st

(* mutant: the caller is handed the node's own value buffer *)
CopyOut_alias(st, n) ==
    [alias |-> n,
     data |-> default_copy(st.node[n].value, st.node[n].value_size),
     size |-> st.node[n].value_size]

(* *value = copy_fn (node->value, node->value_size): a buffer of the caller *)
CopyOut(st, n) ==
    [alias |-> NULL,
     data |-> default_copy(st.node[n].value, st.node[n].value_size),
     size |-> st.node[n].value_size]

(* get, the key found in node n, after move_to_front *)
GetCopy(st, n, failAt) ==
    IF failAt = 1
    THEN [st |-> st, result |-> LRU_ERROR_NOMEM, out |-> NoOut]
    ELSE [st |-> CountHit(st), result |-> LRU_SUCCESS, out |-> CopyOut(st, n)]

(* get, after find_in_hash_table returned f *)
GetFound(f, failAt) ==
    IF f.node = NULL
    THEN [st |-> CountMiss(f.st), result |-> LRU_ERROR_NOT_FOUND, out |-> NoOut]
    ELSE GetCopy(move_to_front(f.st, f.node), f.node, failAt)

lru_cache_get(st, key, key_size, failAt) ==
    IF key_size = 0
    THEN [st |-> st, result |-> LRU_ERROR_INVALID_ARG, out |-> NoOut]
    ELSE GetFound(find_in_hash_table(st, key, key_size), failAt)

(* peek, after find_in_hash_table returned f *)
PeekFound(f, failAt) ==
    IF f.node = NULL
    THEN [st |-> f.st, result |-> LRU_ERROR_NOT_FOUND, out |-> NoOut]
    ELSE IF failAt = 1
    THEN [st |-> f.st, result |-> LRU_ERROR_NOMEM, out |-> NoOut]
    ELSE [st |-> f.st, result |-> LRU_SUCCESS, out |-> CopyOut(f.st, f.node)]

(* mutant: peek promotes and counts like get *)
lru_cache_peek_promote(st, key, key_size, failAt) ==
    lru_cache_get(st, key, key_size, failAt)

lru_cache_peek(st, key, key_size, failAt) ==
    IF key_size = 0
    THEN [st |-> st, result |-> LRU_ERROR_INVALID_ARG, out |-> NoOut]
    ELSE PeekFound(find_in_hash_table(st, key, key_size), failAt)

CountDeletion(st) ==
    IF st.c.track_stats
    THEN [st EXCEPT !.c.stats.deletions = @ + 1,
                    !.c.stats.current_size = st.c.size]
    ELSE st

(* delete, after find_in_hash_table returned f *)
DeleteFound(f) ==
    IF f.node = NULL
    THEN [st |-> f.st, result |-> LRU_ERROR_NOT_FOUND]
    ELSE [st |-> destroy_node(
                    CountDeletion(Shrink(
                        remove_from_list(remove_from_hash_table(f.st, f.node),
                                         f.node))),
                    f.node),
          result |-> LRU_SUCCESS]

lru_cache_delete(st, key, key_size) ==
    IF key_size = 0 THEN [st |-> st, result |-> LRU_ERROR_INVALID_ARG]
    ELSE DeleteFound(find_in_hash_table(st, key, key_size))

ContainsFound(f) ==
    [st |-> f.st, result |-> IF f.node # NULL THEN 1 ELSE 0]

lru_cache_contains(st, key, key_size) ==
    IF key_size = 0 THEN [st |-> st, result |-> 0]
    ELSE ContainsFound(find_in_hash_table(st, key, key_size))

(* clear's first loop: destroy_node on every node from n along next *)
RECURSIVE clear_nodes(_, _)
clear_nodes(st, n) ==
    IF n = NULL THEN st
    ELSE clear_nodes(destroy_node(st, n), st.node[n].next)

(* clear, after the nodes are destroyed: free the cells, reset the fields *)
ClearTable(st) ==
    [st EXCEPT !.c.hash_table = [i \in DOMAIN @ |-> <<>>],
               !.c.head = NULL,
               !.c.tail = NULL,
               !.c.size = 0,
               !.c.stats.current_size = IF st.c.track_stats THEN 0 ELSE @]

lru_cache_clear(st) ==
    [st |-> ClearTable(clear_nodes(st, st.c.head)), result |-> LRU_SUCCESS]

lru_cache_size(st) == st.c.size

lru_cache_capacity(st) == st.c.capacity

(* mutants: resize evicts nothing; resize evicts at most once *)
resize_loop_skip(st) == st

resize_loop_once(st) ==
    IF st.c.size > st.c.capacity THEN evict_lru(st).st ELSE st

(* while (cache->size > cache->capacity) evict_lru (cache);  evict_lru     *)
(* changes nothing when tail is NULL, where the loop would not end.       *)
RECURSIVE resize_loop(_)
resize_loop(st) ==
    IF st.c.size > st.c.capacity /\ st.c.tail # NULL
    THEN resize_loop(evict_lru(st).st)
    ELSE st

lru_cache_resize(st, new_capacity) ==
    IF new_capacity < LRU_CACHE_MIN_CAPACITY
    THEN [st |-> st, result |-> LRU_ERROR_INVALID_ARG]
    ELSE [st |-> resize_loop([st EXCEPT !.c.capacity = new_capacity]),
          result |-> LRU_SUCCESS]

lru_cache_get_stats(st) == st.c.stats

lru_cache_reset_stats(st) ==
    IF ~st.c.track_stats THEN [st |-> st, result |-> LRU_SUCCESS]
    ELSE [st |-> [st EXCEPT !.c.stats =
                     [ZeroStats EXCEPT !.current_size = st.c.size,
                                       !.peak_size = st.c.size]],
          result |-> LRU_SUCCESS]

lru_cache_set_eviction_callback(st, eviction_fn) ==
    [st |-> [st EXCEPT !.c.eviction_fn = eviction_fn], result |-> LRU_SUCCESS]

(* ---- the iterator, as functions of the cache and the iterator ---- *)

(* lru_iterator_create once the lock is taken: iter->current = cache->head *)
lru_iterator_create(st) ==
    [alive |-> TRUE, current |-> st.c.head, locked |-> st.c.thread_safe,
     seen |-> <<>>]

lru_iterator_has_next(it) == it.current # NULL

(* mutant: next hands out the entry and stays on it *)
IteratorStep_stay(st, it) ==
    [it |-> [it EXCEPT !.seen = Append(@, Entry(st, it.current))],
     result |-> LRU_SUCCESS]

(* next, both copies made: the pair goes to the caller, the cursor moves *)
IteratorStep(st, it) ==
    [it |-> [it EXCEPT !.seen = Append(@, Entry(st, it.current)),
                       !.current = st.node[it.current].next],
     result |-> LRU_SUCCESS]

(* failAt = 1: the copy of the key fails, failAt = 2: the copy of the value *)
lru_iterator_next(st, it, failAt) ==
    IF it.current = NULL THEN [it |-> it, result |-> LRU_ERROR_INVALID_ARG]
    ELSE IF failAt = 1 THEN [it |-> it, result |-> LRU_ERROR_NOMEM]
    ELSE IF failAt = 2 THEN [it |-> it, result |-> LRU_ERROR_NOMEM]
    ELSE IteratorStep(st, it)

(* ---- the reference LRU: a list of entries, oldest touch first ---- *)

RefDead == [capacity |-> 0, entries |-> <<>>]

RefHas(r, k) == \E i \in 1..Len(r.entries) : r.entries[i].key = k

RefWithout(r, k) == SelectSeq(r.entries, LAMBDA e : e.key # k)

RefValue(r, k) ==
    (CHOOSE i \in 1..Len(r.entries) : r.entries[i].key = k)

RefPut(r, k, v) ==
    IF RefHas(r, k)
    THEN [r EXCEPT !.entries = Append(RefWithout(r, k), [key |-> k, value |-> v])]
    ELSE IF Len(r.entries) >= r.capacity
    THEN [r EXCEPT !.entries = Append(Tail(@), [key |-> k, value |-> v])]
    ELSE [r EXCEPT !.entries = Append(@, [key |-> k, value |-> v])]

RefGet(r, k) ==
    IF RefHas(r, k)
    THEN [r EXCEPT !.entries = Append(RefWithout(r, k), @[RefValue(r, k)])]
    ELSE r

RefDelete(r, k) == [r EXCEPT !.entries = RefWithout(r, k)]

RefClear(r) == [r EXCEPT !.entries = <<>>]

RefResize(r, n) ==
    IF n < 1 THEN r
    ELSE [capacity |-> n,
          entries |-> IF Len(r.entries) > n
                      THEN SubSeq(r.entries, Len(r.entries) - n + 1, Len(r.entries))
                      ELSE r.entries]

(* ---- views of the cache ---- *)

State == [c |-> cache, node |-> node, cb |-> <<>>, ev |-> <<>>]

Now == [c |-> cache, node |-> node, cb |-> cb, ev |-> ev]

(* the same view of the state a step leads to *)
After == [c |-> cache', node |-> node', cb |-> cb', ev |-> ev']

RECURSIVE ListFrom(_, _, _)
ListFrom(st, n, fuel) ==
    IF n = NULL \/ fuel = 0 THEN <<>>
    ELSE <<n>> \o ListFrom(st, st.node[n].next, fuel - 1)

(* node ids from head to tail *)
Recency(st) == ListFrom(st, st.c.head, Cardinality(DOMAIN st.node) + 1)

(* the entries, most recently used first *)
EntriesOf(st, ids) == [i \in 1..Len(ids) |-> Entry(st, ids[i])]

Contents(st) == EntriesOf(st, Recency(st))

Reverse(s) == [i \in 1..Len(s) |-> s[Len(s) + 1 - i]]

(* ---- the lock, the threads and the iterators before any call ---- *)

(* pthread_rwlock_init: held by nobody *)
FreeLock == [writer |-> NULL, readers |-> [t \in Threads |-> 0]]

Idle == [pc |-> "idle", op |-> "none", key |-> <<>>, value |-> <<>>, arg |-> 0]

NoIter == [alive |-> FALSE, current |-> NULL, locked |-> FALSE, seen |-> <<>>]

NoCalls ==
    /\ lock = FreeLock
    /\ thr = [t \in Threads |-> Idle]
    /\ iter = [t \in Threads |-> NoIter]

(* ---- the caller ---- *)

Init ==
    /\ \E capacity \in Capacities :
          /\ cache = lru_cache_create(capacity)
          /\ ref = [capacity |-> capacity, entries |-> <<>>]
    /\ node = [n \in NodeIds |-> FreeNode]
    /\ cb = <<>>
    /\ ev = <<>>
    /\ out = NoOut
    /\ last = [op |-> "create", key |-> <<>>, value |-> <<>>, arg |-> 0, ret |-> 0]
    /\ fill = <<>>
    /\ nops = 0
    /\ NoCalls

Call(op, key, value, arg) ==
    [op |-> op, key |-> key, value |-> value, arg |-> arg, ret |-> 0]

(* One call returns: r is what the operation made of State. *)
Do(res, call, o, rf) ==
  \E r \in {res} :
    /\ cache' = r.st.c
    /\ node' = r.st.node
    /\ cb' = r.st.cb
    /\ ev' = r.st.ev
    /\ out' = o
    /\ last' = [call EXCEPT !.ret = r.result]
    /\ ref' = IF r.result = LRU_ERROR_NOMEM \/ ref = RefDead THEN RefDead ELSE rf
    /\ nops' = nops + 1

Put ==
    /\ nops < MaxOps
    /\ \E k \in Keys, v \in Values, failAt \in FailPoints :
           Do(lru_cache_put(State, k, Len(k), v, Len(v), failAt),
              Call("put", k, v, 0), NoOut, RefPut(ref, k, v))
    /\ UNCHANGED <<fill, conc>>

Get ==
    /\ nops < MaxOps
    /\ \E k \in Keys, failAt \in 0..1 :
           LET r == lru_cache_get(State, k, Len(k), failAt)
           IN Do(r, Call("get", k, <<>>, 0), r.out, RefGet(ref, k))
    /\ UNCHANGED <<fill, conc>>

Peek ==
    /\ nops < MaxOps
    /\ \E k \in Keys, failAt \in 0..1 :
           LET r == lru_cache_peek(State, k, Len(k), failAt)
           IN Do(r, Call("peek", k, <<>>, 0), r.out, ref)
    /\ UNCHANGED <<fill, conc>>

Delete ==
    /\ nops < MaxOps
    /\ \E k \in Keys :
           Do(lru_cache_delete(State, k, Len(k)),
              Call("delete", k, <<>>, 0), NoOut, RefDelete(ref, k))
    /\ UNCHANGED <<fill, conc>>

Contains ==
    /\ nops < MaxOps
    /\ \E k \in Keys :
           Do(lru_cache_contains(State, k, Len(k)),
              Call("contains", k, <<>>, 0), NoOut, ref)
    /\ UNCHANGED <<fill, conc>>

Clear ==
    /\ nops < MaxOps
    /\ Do(lru_cache_clear(State), Call("clear", <<>>, <<>>, 0), NoOut,
          RefClear(ref))
    /\ UNCHANGED <<fill, conc>>

Resize ==
    /\ nops < MaxOps
    /\ \E n \in 0..MaxCapacity :
           Do(lru_cache_resize(State, n), Call("resize", <<>>, <<>>, n), NoOut,
              RefResize(ref, n))
    /\ UNCHANGED <<fill, conc>>

ResetStats ==
    /\ nops < MaxOps
    /\ Do(lru_cache_reset_stats(State), Call("reset_stats", <<>>, <<>>, 0),
          NoOut, ref)
    /\ UNCHANGED <<fill, conc>>

SetEvictionCallback ==
    /\ nops < MaxOps
    /\ \E fn \in BOOLEAN :
           Do(lru_cache_set_eviction_callback(State, fn),
              Call("set_eviction_callback", <<>>, <<>>, IF fn THEN 1 ELSE 0),
              NoOut, ref)
    /\ UNCHANGED <<fill, conc>>

(* The caller overwrites the buffer it was handed with zero bytes. *)
CallerWrite ==
    /\ nops < MaxOps
    /\ out # NoOut
    /\ out' = [out EXCEPT !.data = [i \in 1..out.size |-> 0]]
    /\ node' = IF out.alias = NULL THEN node
               ELSE [node EXCEPT ![out.alias].value = [i \in 1..out.size |-> 0]]
    /\ last' = Call("write", <<>>, <<>>, 0)
    /\ nops' = nops + 1
    /\ cb' = <<>>
    /\ ev' = <<>>
    /\ UNCHANGED <<cache, ref, fill, conc>>

Next ==
    \/ Put
    \/ Get
    \/ Peek
    \/ Delete
    \/ Contains
    \/ Clear
    \/ Resize
    \/ ResetStats
    \/ SetEvictionCallback
    \/ CallerWrite

Spec == Init /\ [][Next]_vars

(* ---- the fill scenario: distinct keys put one after another into a   ---- *)
(* ---- fresh cache, then one get                                       ---- *)

FillPut ==
    /\ last.op \in {"create", "put"}
    /\ \E k \in FillKeys, v \in Values :
           /\ \A i \in 1..Len(fill) : fill[i].key # k
           /\ Do(lru_cache_put(State, k, Len(k), v, Len(v), 0),
                 Call("put", k, v, 0), NoOut, RefPut(ref, k, v))
           /\ fill' = Append(fill, [key |-> k, value |-> v])
    /\ UNCHANGED conc

FillGet ==
    /\ last.op = "put"
    /\ \E k \in FillKeys :
           LET r == lru_cache_get(State, k, Len(k), 0)
           IN Do(r, Call("get", k, <<>>, 0), r.out, RefGet(ref, k))
    /\ UNCHANGED <<fill, conc>>

NextFill ==
    \/ FillPut
    \/ FillGet

SpecFill == Init /\ [][NextFill]_vars

(* ---- the strategies: a caller that also sets allocator, hash and      ---- *)
(* ---- comparison, and never resets the statistics                     ---- *)

(* the allocators a caller passes: all four functions, or malloc only *)
Allocators ==
    {[malloc_fn |-> "custom_malloc", free_fn |-> "custom_free",
      copy_fn |-> "custom_copy", destroy_fn |-> "custom_destroy"],
     [malloc_fn |-> "custom_malloc", free_fn |-> NoFn,
      copy_fn |-> NoFn, destroy_fn |-> NoFn]}

SetAllocator ==
    /\ nops < MaxOps
    /\ \E a \in {<<>>} \cup {<<x>> : x \in Allocators} :
           Do(lru_cache_set_allocator(State, a),
              Call("set_allocator", <<>>, <<>>, 0), NoOut, ref)
    /\ UNCHANGED <<fill, conc>>

SetHashFunction ==
    /\ nops < MaxOps
    /\ \E fn \in {NoFn, "custom_hash"} :
           Do(lru_cache_set_hash_function(State, fn),
              Call("set_hash_function", <<>>, <<>>, 0), NoOut, ref)
    /\ UNCHANGED <<fill, conc>>

SetCompareFunction ==
    /\ nops < MaxOps
    /\ \E fn \in {NoFn, "custom_compare"} :
           Do(lru_cache_set_compare_function(State, fn),
              Call("set_compare_function", <<>>, <<>>, 0), NoOut, ref)
    /\ UNCHANGED <<fill, conc>>

NextConfig ==
    \/ Put
    \/ Get
    \/ Delete
    \/ Clear
    \/ Resize
    \/ SetAllocator
    \/ SetHashFunction
    \/ SetCompareFunction

SpecConfig == Init /\ [][NextConfig]_vars

(* ---- the scenario of main: a cache of capacity 5 with the eviction    ---- *)
(* ---- callback registered, key1..key7 put in that order, then one get ---- *)

DemoCapacity == 5
DemoCount == 7

(* "key<i>" and "value_<i>" with their terminating zero byte *)
DemoKey(i) == <<107, 101, 121, 48 + i, 0>>

DemoValue(i) == <<118, 97, 108, 117, 101, 95, 48 + i, 0>>

DemoKeys == {DemoKey(i) : i \in 1..DemoCount}

InitDemo ==
    /\ cache = lru_cache_set_eviction_callback(
                   [c |-> lru_cache_create(DemoCapacity),
                    node |-> <<>>, cb |-> <<>>, ev |-> <<>>], TRUE).st.c
    /\ ref = [capacity |-> DemoCapacity, entries |-> <<>>]
    /\ node = [n \in 1..(DemoCapacity + 1) |-> FreeNode]
    /\ cb = <<>>
    /\ ev = <<>>
    /\ out = NoOut
    /\ last = [Call("set_eviction_callback", <<>>, <<>>, 1) EXCEPT
                  !.ret = LRU_SUCCESS]
    /\ fill = <<>>
    /\ nops = 0
    /\ NoCalls

(* the next put of the loop; main puts value_<i>, the model any value *)
DemoPut ==
    /\ last.op \in {"set_eviction_callback", "put"}
    /\ Len(fill) < DemoCount
    /\ \E k \in {DemoKey(Len(fill) + 1)},
          v \in {DemoValue(Len(fill) + 1)} \cup Values :
           /\ Do(lru_cache_put(State, k, Len(k), v, Len(v), 0),
                 Call("put", k, v, 0), NoOut, RefPut(ref, k, v))
           /\ fill' = Append(fill, [key |-> k, value |-> v])
    /\ UNCHANGED conc

DemoGet ==
    /\ last.op = "put"
    /\ \E k \in DemoKeys :
           LET r == lru_cache_get(State, k, Len(k), 0)
           IN Do(r, Call("get", k, <<>>, 0), r.out, RefGet(ref, k))
    /\ UNCHANGED <<fill, conc>>

NextDemo ==
    \/ DemoPut
    \/ DemoGet

SpecDemo == InitDemo /\ [][NextDemo]_vars

(* ---- several threads on one cache ---- *)

(* mutant: get takes the lock for reading *)
LockMode_getrd(op) ==
    IF op \in {"put", "delete", "clear", "resize", "reset_stats"}
    THEN "wr" ELSE "rd"

(* which form of cache->lock an operation takes: pthread_rwlock_wrlock or  *)
(* pthread_rwlock_rdlock                                                   *)
LockMode(op) ==
    IF op \in {"put", "get", "delete", "clear", "resize", "reset_stats"}
    THEN "wr" ELSE "rd"

(* pthread_rwlock_wrlock returns once nobody holds the lock, a thread that *)
(* holds it itself included; pthread_rwlock_rdlock once no writer does.    *)
CanLock(t, mode) ==
    IF mode = "wr"
    THEN lock.writer = NULL /\ \A u \in Threads : lock.readers[u] = 0
    ELSE lock.writer = NULL

pthread_rwlock_lock(t, mode) ==
    IF mode = "wr"
    THEN [lock EXCEPT !.writer = t]
    ELSE [lock EXCEPT !.readers[t] = @ + 1]

pthread_rwlock_unlock(t) ==
    IF lock.writer = t
    THEN [lock EXCEPT !.writer = NULL]
    ELSE [lock EXCEPT !.readers[t] = @ - 1]

(* calls entered and not yet returned *)
Busy == {t \in Threads : thr[t].pc # "idle"}

(* Thread t enters an operation: the arguments are checked, the next step  *)
(* is the lock.                                                            *)
Enter(t, op, key, value, arg) ==
    /\ thr[t].pc = "idle"
    /\ nops + Cardinality(Busy) < MaxThreadOps
    /\ thr' = [thr EXCEPT ![t] = [pc |-> "wait", op |-> op, key |-> key,
                                  value |-> value, arg |-> arg]]
    /\ UNCHANGED <<cache, node, cb, ev, out, last, ref, fill, nops, lock, iter>>

(* Thread t gets the lock its operation waits for. *)
Acquire(t) ==
    /\ thr[t].pc = "wait"
    /\ cache.thread_safe => CanLock(t, LockMode(thr[t].op))
    /\ lock' = IF cache.thread_safe
               THEN pthread_rwlock_lock(t, LockMode(thr[t].op))
               ELSE lock
    /\ thr' = [thr EXCEPT ![t].pc = "in"]
    /\ UNCHANGED <<cache, node, cb, ev, out, last, ref, fill, nops, iter>>

(* mutant: an error result returns at once, past the unlock *)
Leave_held(t, r, o, rf) ==
    /\ Do(r, Call(thr[t].op, thr[t].key, thr[t].value, thr[t].arg), o, rf)
    /\ lock' = IF cache.thread_safe /\ r.result = LRU_SUCCESS
               THEN pthread_rwlock_unlock(t)
               ELSE lock
    /\ thr' = [thr EXCEPT ![t] = Idle]
    /\ UNCHANGED <<fill, iter>>

(* Thread t runs the locked section of its operation, unlocks and returns. *)
Leave(t, r, o, rf) ==
    /\ Do(r, Call(thr[t].op, thr[t].key, thr[t].value, thr[t].arg), o, rf)
    /\ lock' = IF cache.thread_safe THEN pthread_rwlock_unlock(t) ELSE lock
    /\ thr' = [thr EXCEPT ![t] = Idle]
    /\ UNCHANGED <<fill, iter>>

(* the keys of thread t: no two threads share a key *)
ThreadKeys(t) == {k \in FillKeys : k[1] = t}

CallPut(t) ==
    /\ thr[t].pc = "idle"
    /\ \E k \in ThreadKeys(t), v \in Values : Enter(t, "put", k, v, 0)

CallGet(t) ==
    /\ thr[t].pc = "idle"
    /\ \E k \in ThreadKeys(t) : Enter(t, "get", k, <<>>, 0)

CallSize(t) ==
    /\ thr[t].pc = "idle"
    /\ Enter(t, "size", <<>>, <<>>, 0)

RunPut(t) ==
    /\ thr[t].pc = "in" /\ thr[t].op = "put"
    /\ Leave(t, lru_cache_put(State, thr[t].key, Len(thr[t].key),
                              thr[t].value, Len(thr[t].value), 0),
             NoOut, RefPut(ref, thr[t].key, thr[t].value))

RunGet(t) ==
    /\ thr[t].pc = "in" /\ thr[t].op = "get"
    /\ LET r == lru_cache_get(State, thr[t].key, Len(thr[t].key), 0)
       IN Leave(t, r, r.out, RefGet(ref, thr[t].key))

RunSize(t) ==
    /\ thr[t].pc = "in" /\ thr[t].op = "size"
    /\ Leave(t, [st |-> State, result |-> lru_cache_size(State)], NoOut, ref)

NextThreads ==
    \E t \in Threads :
        \/ CallPut(t)
        \/ CallGet(t)
        \/ CallSize(t)
        \/ Acquire(t)
        \/ RunPut(t)
        \/ RunGet(t)
        \/ RunSize(t)

SpecThreads == Init /\ [][NextThreads]_vars

(* ---- iterators ---- *)

(* A cache to iterate: what a sequence of puts has made of a new cache.    *)
RECURSIVE Setup(_, _, _)
Setup(st, keys, i) ==
    IF i > Len(keys) THEN st
    ELSE Setup(lru_cache_put(st, keys[i], Len(keys[i]),
                             IF i % 2 = 1 THEN <<7>> ELSE <<8, 9>>,
                             IF i % 2 = 1 THEN 1 ELSE 2, 0).st,
               keys, i + 1)

SetupOf(capacity, keys) ==
    Setup([c |-> lru_cache_create(capacity),
           node |-> [n \in NodeIds |-> FreeNode], cb |-> <<>>, ev |-> <<>>],
          keys, 1)

InitSetup(capacities, keyseqs) ==
    /\ \E capacity \in capacities, keys \in keyseqs :
          /\ cache = SetupOf(capacity, keys).c
          /\ node = SetupOf(capacity, keys).node
    /\ cb = <<>>
    /\ ev = <<>>
    /\ out = NoOut
    /\ last = Call("create", <<>>, <<>>, 0)
    /\ ref = RefDead
    /\ fill = <<>>
    /\ nops = 0
    /\ NoCalls

(* an iterator call returns without touching the cache *)
IteratorReturn(t, op, ret, it) ==
    /\ iter' = [iter EXCEPT ![t] = it]
    /\ last' = [Call(op, <<>>, <<>>, t) EXCEPT !.ret = ret]
    /\ out' = NoOut
    /\ cb' = <<>>
    /\ ev' = <<>>
    /\ UNCHANGED <<cache, node, ref, fill>>

(* mutant: the iterator locks per step: create unlocks before it returns *)
RunIteratorCreate_unlock(t) ==
    /\ thr[t].pc = "in" /\ thr[t].op = "iterator_create"
    /\ IteratorReturn(t, "iterator_create", LRU_SUCCESS,
                      [lru_iterator_create(State) EXCEPT !.locked = FALSE])
    /\ thr' = [thr EXCEPT ![t] = Idle]
    /\ nops' = nops + 1
    /\ lock' = pthread_rwlock_unlock(t)

(* lru_iterator_create: the thread waits for the lock as a reader *)
CallIteratorCreate(t) ==
    /\ thr[t].pc = "idle"
    /\ ~iter[t].alive
    /\ Enter(t, "iterator_create", <<>>, <<>>, t)

(* the lock is taken and stays taken: the iterator reads the head *)
RunIteratorCreate(t) ==
    /\ thr[t].pc = "in" /\ thr[t].op = "iterator_create"
    /\ IteratorReturn(t, "iterator_create", LRU_SUCCESS,
                      lru_iterator_create(State))
    /\ thr' = [thr EXCEPT ![t] = Idle]
    /\ nops' = nops + 1
    /\ UNCHANGED lock

IteratorHasNext(t) ==
    /\ thr[t].pc = "idle"
    /\ iter[t].alive
    /\ IteratorReturn(t, "iterator_has_next",
                      IF lru_iterator_has_next(iter[t]) THEN 1 ELSE 0, iter[t])
    /\ UNCHANGED <<nops, lock, thr>>

IteratorNext(t) ==
    /\ thr[t].pc = "idle"
    /\ iter[t].alive
    /\ \E failAt \in 0..2 :
          \E r \in {lru_iterator_next(State, iter[t], failAt)} :
              IteratorReturn(t, "iterator_next", r.result, r.it)
    /\ UNCHANGED <<nops, lock, thr>>

(* lru_iterator_destroy: unlock when locked, free the iterator *)
IteratorDestroy(t) ==
    /\ thr[t].pc = "idle"
    /\ iter[t].alive
    /\ IteratorReturn(t, "iterator_destroy", LRU_SUCCESS, NoIter)
    /\ lock' = IF iter[t].locked /\ cache.thread_safe
               THEN pthread_rwlock_unlock(t) ELSE lock
    /\ UNCHANGED <<nops, thr>>

(* caches made by up to MaxCapacity puts of any keys *)
IterSetups == UNION {[1..n -> Keys] : n \in 0..MaxCapacity}

InitIter == InitSetup(Capacities, IterSetups)

NextIter ==
    \E t \in Threads :
        \/ CallIteratorCreate(t)
        \/ Acquire(t)
        \/ RunIteratorCreate(t)
        \/ IteratorHasNext(t)
        \/ IteratorNext(t)
        \/ IteratorDestroy(t)

SpecIter == InitIter /\ [][NextIter]_vars

(* ---- threads with iterators, readers and writers ---- *)

WriteOps == {"put", "get", "delete", "clear", "resize", "reset_stats"}

(* the calls of thread t: one key of its own, one value *)
LockCalls(t) ==
    {[op |-> "put", key |-> <<t>>, value |-> <<7>>, arg |-> 0],
     [op |-> "get", key |-> <<t>>, value |-> <<>>, arg |-> 0],
     [op |-> "delete", key |-> <<t>>, value |-> <<>>, arg |-> 0],
     [op |-> "clear", key |-> <<>>, value |-> <<>>, arg |-> 0],
     [op |-> "resize", key |-> <<>>, value |-> <<>>, arg |-> 1],
     [op |-> "reset_stats", key |-> <<>>, value |-> <<>>, arg |-> 0],
     [op |-> "peek", key |-> <<t>>, value |-> <<>>, arg |-> 0],
     [op |-> "contains", key |-> <<t>>, value |-> <<>>, arg |-> 0],
     [op |-> "size", key |-> <<>>, value |-> <<>>, arg |-> 0]}

(* thread t enters an operation that takes the lock for writing *)
CallWrite(t) ==
    /\ thr[t].pc = "idle"
    /\ \E c \in LockCalls(t) :
          /\ c.op \in WriteOps
          /\ Enter(t, c.op, c.key, c.value, c.arg)

(* thread t enters an operation that takes the lock for reading *)
CallRead(t) ==
    /\ thr[t].pc = "idle"
    /\ \E c \in LockCalls(t) :
          /\ c.op \notin WriteOps
          /\ Enter(t, c.op, c.key, c.value, c.arg)

RunDelete(t) ==
    /\ thr[t].pc = "in" /\ thr[t].op = "delete"
    /\ Leave(t, lru_cache_delete(State, thr[t].key, Len(thr[t].key)),
             NoOut, RefDelete(ref, thr[t].key))

RunClear(t) ==
    /\ thr[t].pc = "in" /\ thr[t].op = "clear"
    /\ Leave(t, lru_cache_clear(State), NoOut, RefClear(ref))

RunResize(t) ==
    /\ thr[t].pc = "in" /\ thr[t].op = "resize"
    /\ Leave(t, lru_cache_resize(State, thr[t].arg), NoOut,
             RefResize(ref, thr[t].arg))

RunResetStats(t) ==
    /\ thr[t].pc = "in" /\ thr[t].op = "reset_stats"
    /\ Leave(t, lru_cache_reset_stats(State), NoOut, ref)

RunPeek(t) ==
    /\ thr[t].pc = "in" /\ thr[t].op = "peek"
    /\ LET r == lru_cache_peek(State, thr[t].key, Len(thr[t].key), 0)
       IN Leave(t, r, r.out, ref)

RunContains(t) ==
    /\ thr[t].pc = "in" /\ thr[t].op = "contains"
    /\ Leave(t, lru_cache_contains(State, thr[t].key, Len(thr[t].key)),
             NoOut, ref)

(* a cache with room for one entry of each thread, holding the entry of   *)
(* the first thread                                                        *)
LockSetups == {<<<<1>>>>}

InitLock == InitSetup({NThreads}, LockSetups)

NextLock ==
    \E t \in Threads :
        \/ CallIteratorCreate(t)
        \/ RunIteratorCreate(t)
        \/ IteratorNext(t)
        \/ IteratorDestroy(t)
        \/ CallWrite(t)
        \/ CallRead(t)
        \/ Acquire(t)
        \/ RunPut(t)
        \/ RunGet(t)
        \/ RunDelete(t)
        \/ RunClear(t)
        \/ RunResize(t)
        \/ RunResetStats(t)
        \/ RunPeek(t)
        \/ RunContains(t)
        \/ RunSize(t)

SpecLock == InitLock /\ [][NextLock]_vars

(* ---- the claims ---- *)

Min(a, b) == IF a <= b THEN a ELSE b

KeysOf(entries) == {entries[i].key : i \in 1..Len(entries)}

(* the entries of before whose key after no longer holds, least recent first *)
Removed(before, after) ==
    SelectSeq(Reverse(before), LAMBDA e : e.key \notin KeysOf(after))

(* what the reference LRU evicts on a call *)
RefVictims(r, call) ==
    IF call.op = "put" /\ ~RefHas(r, call.key) /\ Len(r.entries) >= r.capacity
    THEN <<r.entries[1]>>
    ELSE IF call.op = "resize" /\ call.arg >= 1 /\ Len(r.entries) > call.arg
    THEN SubSeq(r.entries, 1, Len(r.entries) - call.arg)
    ELSE <<>>

Hit(call) == call.op = "get" /\ call.ret \in {LRU_SUCCESS, LRU_ERROR_NOMEM}

(* C1: as long as no allocation has failed, the cache holds the entries of *)
(* the reference LRU in the same recency order, and every call evicts      *)
(* exactly the entries the reference evicts: one entry, the least recently *)
(* touched, when a put of a new key finds size = capacity.                 *)
C1_MatchesReferenceLRU ==
    /\ [](ref # RefDead => Contents(Now) = Reverse(ref.entries))
    /\ [][ref' # RefDead => ev' = RefVictims(ref, last')]_vars

(* put a, put b, get a, put c at capacity 2: b is evicted, a (node 1) stays *)
C1_Witness ==
    /\ ref # RefDead
    /\ last.op = "put" /\ last.ret = LRU_SUCCESS
    /\ Len(ev) = 1
    /\ cache.stats.hits = 1 /\ cache.stats.insertions = 3
    /\ ~IsFree(Now, 1) /\ IsFree(Now, 2)

(* C2: after every call size() <= capacity(). *)
C2_SizeWithinCapacity == lru_cache_size(Now) <= lru_cache_capacity(Now)

(* a resize below the size has evicted down to the new capacity *)
C2_Witness ==
    /\ last.op = "resize" /\ last.ret = LRU_SUCCESS
    /\ Len(ev) >= 1
    /\ lru_cache_size(Now) = lru_cache_capacity(Now)

(* C3: a get(k) right after a successful put(k, v), its copy not failing,  *)
(* returns success and the bytes of v; and the caller's writing into the   *)
(* returned buffer changes no entry of the cache.                          *)
C3_RoundTrip ==
    /\ [][(/\ last.op = "put" /\ last.ret = LRU_SUCCESS
           /\ last'.op = "get" /\ last'.key = last.key
           /\ last'.ret # LRU_ERROR_NOMEM)
          => (/\ last'.ret = LRU_SUCCESS
              /\ out'.data = last.value
              /\ out'.size = Len(last.value))]_vars
    /\ [][last'.op = "write" => Contents(After) = Contents(Now)]_vars

(* put, get hit, then the caller's write into the returned buffer *)
C3_Witness ==
    /\ last.op = "write"
    /\ nops = 3
    /\ cache.size = 1 /\ cache.stats.hits = 1 /\ cache.stats.insertions = 1
    /\ out.data # Contents(Now)[1].value

(* C4: after a get(k) that found k, k is the head of the list; and when    *)
(* the cache holds at least two entries the next call evicts no entry of   *)
(* key k.                                                                  *)
C4_GetPromotes ==
    /\ [](Hit(last) => cache.head # NULL /\ node[cache.head].key = last.key)
    /\ [][(Hit(last) /\ cache.size >= 2)
          => \A i \in 1..Len(ev') : ev'[i].key # last.key]_vars

(* put a, put b, get a, resize(1): b is evicted, a (node 1) stays *)
C4_Witness ==
    /\ last.op = "resize" /\ last.arg = 1
    /\ Len(ev) = 1
    /\ nops = 4
    /\ cache.stats.hits = 1 /\ cache.stats.insertions = 2
    /\ ~IsFree(Now, 1) /\ IsFree(Now, 2)

(* C5: peek changes neither the nodes and their links, nor head and tail,  *)
(* nor the size, nor the hit and miss counters.                            *)
C5_PeekFrame ==
    [][last'.op = "peek"
       => /\ node' = node
          /\ cache'.head = cache.head /\ cache'.tail = cache.tail
          /\ Contents(After) = Contents(Now)
          /\ cache'.size = cache.size
          /\ cache'.stats.hits = cache.stats.hits
          /\ cache'.stats.misses = cache.stats.misses]_vars

(* a successful peek of the tail entry of a cache of two or more *)
C5_Witness ==
    /\ last.op = "peek" /\ last.ret = LRU_SUCCESS
    /\ cache.size >= 2
    /\ node[cache.tail].key = last.key

(* C6: with a callback registered, a put or resize invokes it once for     *)
(* each entry it evicted, least recent first, with the entry's key and the *)
(* value it held; no other call, delete and clear included, invokes it.    *)
C6_CallbackPerEviction ==
    [][IF last'.op \in {"put", "resize"} /\ cache'.eviction_fn
       THEN cb' = Removed(Contents(Now), Contents(After))
       ELSE cb' = <<>>]_vars

(* a put at capacity with the callback registered *)
C6_Witness ==
    /\ cache.eviction_fn
    /\ last.op = "put" /\ last.ret = LRU_SUCCESS
    /\ Len(cb) = 1 /\ cb = ev

(* C7: a put that returns OutOfMemory leaves the entries, their order and  *)
(* the size as they were, evicts nothing and invokes no callback.          *)
C7_PutNoMemUnchanged ==
    [][(last'.op = "put" /\ last'.ret = LRU_ERROR_NOMEM)
       => /\ Contents(After) = Contents(Now)
          /\ cache'.size = cache.size
          /\ ev' = <<>>
          /\ cb' = <<>>]_vars

(* C8: a get that returns OutOfMemory leaves the recency order, the        *)
(* entries and the size as they were.                                      *)
C8_GetNoMemUnchanged ==
    [][(last'.op = "get" /\ last'.ret = LRU_ERROR_NOMEM)
       => /\ Contents(After) = Contents(Now)
          /\ cache'.size = cache.size]_vars

(* C9: resize(n), n >= 1, on s entries returns success, evicts the s - n   *)
(* least recently used entries, least recent first, when s > n and none    *)
(* otherwise, counts each eviction, and keeps the others in their order.   *)
C9_ResizeEvictsOldest ==
    [][(last'.op = "resize" /\ last'.arg >= 1)
       => /\ last'.ret = LRU_SUCCESS
          /\ cache'.capacity = last'.arg
          /\ ev' = [i \in 1..(cache.size - Min(cache.size, last'.arg))
                      |-> Contents(Now)[cache.size + 1 - i]]
          /\ cache'.stats.evictions = cache.stats.evictions + Len(ev')
          /\ cache'.size = Min(cache.size, last'.arg)
          /\ Contents(After) = SubSeq(Contents(Now), 1, Min(cache.size, last'.arg))]_vars

(* a resize that evicted two entries *)
C9_Witness ==
    /\ last.op = "resize" /\ last.ret = LRU_SUCCESS
    /\ Len(ev) = 2
    /\ cache.size = cache.capacity

(* C10: in the fill scenario, once n > c keys are put into a cache of      *)
(* capacity c: the n-th put evicted the (n - c)-th key put, n - c          *)
(* evictions are counted, size = c, the entries are the last c puts, most  *)
(* recent first, and a get of one of them returns the value it was put     *)
(* with.                                                                   *)
C10_FillEvictsInOrder ==
    LET n == Len(fill)
        c == cache.capacity
    IN n > c =>
        /\ cache.size = c
        /\ cache.stats.evictions = n - c
        /\ last.op = "put" =>
              /\ ev = <<fill[n - c]>>
              /\ Contents(Now) = Reverse(SubSeq(fill, n - c + 1, n))
        /\ last.op = "get" =>
              /\ {Contents(Now)[i] : i \in 1..Len(Contents(Now))}
                    = {fill[i] : i \in (n - c + 1)..n}
              /\ \A i \in (n - c + 1)..n :
                    fill[i].key = last.key =>
                        /\ last.ret = LRU_SUCCESS
                        /\ out.data = fill[i].value

(* five keys put into a cache of capacity 3, then a get that hits *)
C10_Witness ==
    /\ cache.capacity = 3
    /\ Len(fill) = 5
    /\ cache.stats.evictions = 2
    /\ last.op = "get" /\ last.ret = LRU_SUCCESS

(* C11 as stated: in the scenario of main, after key1..key7 are put, a     *)
(* get of key3 returns NotFound.                                           *)
C11_Key3NotFound ==
    (Len(fill) = DemoCount /\ last.op = "get" /\ last.key = DemoKey(3))
        => last.ret = LRU_ERROR_NOT_FOUND

(* C11 amended: in the scenario of main, after key1..key7 are put, a get   *)
(* of key3 returns success and the value key3 was put with; the keys a get *)
(* reports NotFound are key1 and key2.                                     *)
C11_Key3Found ==
    (Len(fill) = DemoCount /\ last.op = "get") =>
        /\ last.key = DemoKey(3) =>
              /\ last.ret = LRU_SUCCESS
              /\ out.data = fill[3].value
        /\ last.ret = LRU_ERROR_NOT_FOUND <=> last.key \in {DemoKey(1), DemoKey(2)}

(* key1..key7 put with main's values, then get(key3) *)
C11_Witness ==
    /\ fill = [i \in 1..DemoCount |-> [key |-> DemoKey(i), value |-> DemoValue(i)]]
    /\ last.op = "get" /\ last.key = DemoKey(3)
    /\ out.data = DemoValue(3)
    /\ cache.stats.evictions = 2

(* C12: after every call of a run in which no allocation failed the       *)
(* statistic current_size equals size().                                   *)
C12_CurrentSizeIsSize ==
    ref # RefDead => lru_cache_get_stats(Now).current_size = lru_cache_size(Now)

(* C13: hits + misses counts the get calls since creation or the last     *)
(* resetStats: every get, whatever it returns, adds one to hits + misses,  *)
(* resetStats sets both to zero, peek and contains change neither.         *)
C13_HitsPlusMissesCountGets ==
    [][/\ last'.op = "get" =>
             cache'.stats.hits + cache'.stats.misses
                 = cache.stats.hits + cache.stats.misses + 1
       /\ last'.op = "reset_stats" =>
             cache'.stats.hits + cache'.stats.misses = 0
       /\ last'.op \in {"peek", "contains"} =>
             /\ cache'.stats.hits = cache.stats.hits
             /\ cache'.stats.misses = cache.stats.misses]_vars

(* C14 as stated: no call lowers the statistic peak_size.                  *)
C14_PeakNonDecreasing ==
    [][cache'.stats.peak_size >= cache.stats.peak_size]_vars

(* C14 amended: no call other than resetStats lowers peak_size; resetStats *)
(* sets it to the number of entries held.                                  *)
C14_PeakNonDecreasingButReset ==
    [][IF last'.op = "reset_stats"
       THEN cache'.stats.peak_size = cache'.size
       ELSE cache'.stats.peak_size >= cache.stats.peak_size]_vars

(* put, put, delete of the first key, resetStats: peak_size falls to 1 *)
C14_Witness ==
    /\ last.op = "reset_stats"
    /\ nops = 4
    /\ cache.size = 1 /\ cache.stats.peak_size = 1
    /\ IsFree(Now, 1) /\ ~IsFree(Now, 2) /\ cache.capacity = 3

(* C15: with threads putting and getting keys of their own on one cache,  *)
(* size never exceeds the capacity, no size() call returns more than it,   *)
(* and a thread inside the locked section of put or get is alone inside    *)
(* the locked section of any operation.                                    *)
C15_ThreadsExclusive ==
    /\ lru_cache_size(Now) <= lru_cache_capacity(Now)
    /\ last.op = "size" => last.ret <= lru_cache_capacity(Now)
    /\ \A t \in Threads, u \in Threads :
          (/\ t # u
           /\ thr[t].pc = "in" /\ thr[t].op \in {"put", "get"})
              => thr[u].pc # "in"

(* one thread inside put on a full cache while the other waits in get *)
C15_Witness ==
    /\ cache.size = cache.capacity
    /\ \E t \in Threads, u \in Threads :
          /\ thr[t].pc = "in" /\ thr[t].op = "put"
          /\ thr[u].pc = "wait" /\ thr[u].op = "get"

IteratorAlive == \E t \in Threads : iter[t].alive

(* C16: an iterator holds the lock as a reader from its creation to its    *)
(* destruction.  While an iterator is alive no thread is inside the locked *)
(* section of a writing operation and none returns from one; a thread      *)
(* waiting for the lock gets it exactly when its operation only reads, so  *)
(* a write of the thread that holds the iterator waits for ever; and once  *)
(* no iterator is alive and no thread is inside, a writer gets the lock.   *)
C16_IteratorBlocksWriters ==
    /\ [](\A t \in Threads :
             iter[t].alive =>
                 /\ iter[t].locked
                 /\ lock.readers[t] >= 1
                 /\ lock.writer = NULL)
    /\ [](IteratorAlive =>
             \A u \in Threads :
                 /\ ~(thr[u].pc = "in" /\ thr[u].op \in WriteOps)
                 /\ thr[u].pc = "wait" =>
                       (CanLock(u, LockMode(thr[u].op))
                            <=> thr[u].op \notin WriteOps))
    /\ [][IteratorAlive => ~(nops' = nops + 1 /\ last'.op \in WriteOps)]_vars
    /\ []((~IteratorAlive /\ \A u \in Threads : thr[u].pc # "in")
             => \A u \in Threads : CanLock(u, "wr"))

(* the thread that holds an iterator waits in a write of its own while     *)
(* another thread is inside peek                                           *)
C16_Witness ==
    \E t \in Threads, u \in Threads :
        /\ t # u
        /\ iter[t].alive
        /\ thr[t].pc = "wait" /\ thr[t].op = "put"
        /\ thr[u].pc = "in" /\ thr[u].op = "peek"

IteratorOps ==
    {"iterator_create", "iterator_has_next", "iterator_next", "iterator_destroy"}

(* C17: the pairs an iterator has handed out are the first entries of the  *)
(* cache in recency order, most recent first; has-next is true exactly     *)
(* while fewer than size pairs were handed out, so a finished iterator has *)
(* handed out every entry once; a next whose copies succeed hands out one  *)
(* pair while has-next is true and returns InvalidArgument, changing       *)
(* nothing, once it is false; no iterator call changes the cache.          *)
C17_IteratorYieldsAll ==
    /\ [](\A t \in Threads :
             iter[t].alive =>
                 /\ iter[t].seen = SubSeq(Contents(Now), 1, Len(iter[t].seen))
                 /\ lru_iterator_has_next(iter[t])
                       <=> Len(iter[t].seen) < lru_cache_size(Now)
                 /\ ~lru_iterator_has_next(iter[t])
                       => iter[t].seen = Contents(Now))
    /\ [](last.op = "iterator_has_next" =>
             (last.ret = 1 <=> Len(iter[last.arg].seen) < lru_cache_size(Now)))
    /\ [][\A t \in Threads :
             (last'.op = "iterator_next" /\ last'.arg = t /\ thr' = thr
              /\ last'.ret # LRU_ERROR_NOMEM) =>
                 IF lru_iterator_has_next(iter[t])
                 THEN /\ last'.ret = LRU_SUCCESS
                      /\ Len(iter'[t].seen) = Len(iter[t].seen) + 1
                 ELSE /\ last'.ret = LRU_ERROR_INVALID_ARG
                      /\ iter'[t] = iter[t]]_vars
    /\ [][last'.op \in IteratorOps => cache' = cache /\ node' = node]_vars

(* a next on an iterator that has handed out all three entries *)
C17_Witness ==
    /\ last.op = "iterator_next" /\ last.ret = LRU_ERROR_INVALID_ARG
    /\ lru_cache_size(Now) = 3
    /\ Len(iter[last.arg].seen) = 3

SetterOps == {"set_allocator", "set_hash_function", "set_compare_function"}

(* C18: once a put has inserted an entry (no call resets the insertions    *)
(* counter here), every set-allocator, set-hash-function and               *)
(* set-compare-function call of a run in which no allocation failed        *)
(* returns InvalidArgument and leaves the strategies as they were.         *)
C18_StrategiesFixedAfterInsert ==
    [][(/\ cache.stats.insertions > 0
        /\ ref' # RefDead
        /\ last'.op \in SetterOps) =>
          /\ last'.ret = LRU_ERROR_INVALID_ARG
          /\ cache'.allocator = cache.allocator
          /\ cache'.hash_fn = cache.hash_fn
          /\ cache'.compare_fn = cache.compare_fn]_vars

(* C19: contains(k) returns true exactly when an entry has key k, and      *)
(* changes neither the nodes and their links, nor head, tail and size, nor *)
(* any field of the statistics.                                            *)
C19_ContainsNoSideEffects ==
    [][last'.op = "contains" =>
          /\ last'.ret = 1 <=> last'.key \in KeysOf(Contents(Now))
          /\ node' = node
          /\ cache'.head = cache.head /\ cache'.tail = cache.tail
          /\ cache'.size = cache.size
          /\ lru_cache_get_stats(After) = lru_cache_get_stats(Now)]_vars

(* C20: a put of a key the cache holds, its copy not failing, returns      *)
(* success, makes the entry the head with the new value and keeps the      *)
(* other entries in their order; it evicts nothing, calls no callback and  *)
(* leaves size and the insertions and evictions counters alone; and no two *)
(* entries ever have the same key.                                         *)
C20_PutExistingUpdates ==
    /\ [][(/\ last'.op = "put"
            /\ last'.key \in KeysOf(Contents(Now))
            /\ last'.ret # LRU_ERROR_NOMEM) =>
              /\ last'.ret = LRU_SUCCESS
              /\ Contents(After) =
                    <<[key |-> last'.key, value |-> last'.value]>>
                        \o SelectSeq(Contents(Now),
                                     LAMBDA e : e.key # last'.key)
              /\ cache'.size = cache.size
              /\ cache'.stats.insertions = cache.stats.insertions
              /\ cache'.stats.evictions = cache.stats.evictions
              /\ ev' = <<>>
              /\ cb' = <<>>]_vars
    /\ [](Cardinality(KeysOf(Contents(Now))) = Len(Contents(Now)))

(* put a, put b, put a again into a cache of capacity 2 *)
C20_Witness ==
    /\ last.op = "put" /\ last.ret = LRU_SUCCESS
    /\ nops = 3
    /\ cache.size = 2 /\ cache.capacity = 2
    /\ cache.stats.insertions = 2 /\ cache.stats.evictions = 0
    /\ node[cache.head].key = last.key /\ cache.head = 1

(* ---- the hash index seen from outside ---- *)

(* the node ids the chain cells of all buckets point to *)
Indexed(st) ==
    UNION {{st.c.hash_table[h][i] : i \in 1..Len(st.c.hash_table[h])} :
              h \in DOMAIN st.c.hash_table}

(* the allocated nodes whose key is key *)
NodesOf(st, key) ==
    {n \in DOMAIN st.node : ~IsFree(st, n) /\ st.node[n].key = key}

(* C21: delete(k) of a held key returns success, removes that entry and    *)
(* no other from the recency list and its cell from the hash index, keeps  *)
(* the order of the others, lowers size by one and raises deletions by     *)
(* one, and a get, peek or contains of k in the state it leaves reports    *)
(* the key absent; delete(k) of a key not held returns NotFound and leaves *)
(* the entries, their order, size and deletions as they were.              *)
C21_DeleteRemovesExactly ==
    [][last'.op = "delete" =>
         IF last'.key \in KeysOf(Contents(Now))
         THEN /\ last'.ret = LRU_SUCCESS
              /\ Contents(After) =
                    SelectSeq(Contents(Now), LAMBDA e : e.key # last'.key)
              /\ Len(Contents(After)) = Len(Contents(Now)) - 1
              /\ Indexed(After) = Indexed(Now) \ NodesOf(Now, last'.key)
              /\ Cardinality(Indexed(After)) = Cardinality(Indexed(Now)) - 1
              /\ cache'.size = cache.size - 1
              /\ cache'.stats.deletions = cache.stats.deletions + 1
              /\ lru_cache_get(After, last'.key, Len(last'.key), 0).result
                    = LRU_ERROR_NOT_FOUND
              /\ lru_cache_peek(After, last'.key, Len(last'.key), 0).result
                    = LRU_ERROR_NOT_FOUND
              /\ lru_cache_contains(After, last'.key, Len(last'.key)).result
                    = 0
         ELSE /\ last'.ret = LRU_ERROR_NOT_FOUND
              /\ Contents(After) = Contents(Now)
              /\ Indexed(After) = Indexed(Now)
              /\ cache'.size = cache.size
              /\ cache'.stats.deletions = cache.stats.deletions]_vars

(* three puts, then a delete that leaves two entries *)
C21_Witness ==
    /\ last.op = "delete" /\ last.ret = LRU_SUCCESS
    /\ cache.size = 2
    /\ cache.stats.insertions = 3 /\ cache.stats.deletions = 1
    /\ last.key \notin KeysOf(Contents(Now))

(* the chain cells of all buckets, as pairs of bucket and position *)
Cells(st) ==
    {<<h, i>> \in (DOMAIN st.c.hash_table) \X (1..Cardinality(DOMAIN st.node)) :
        i <= Len(st.c.hash_table[h])}

(* the allocated nodes *)
Live(st) == {n \in DOMAIN st.node : ~IsFree(st, n)}

(* the cells of the hash index are the live nodes, each once and in the    *)
(* bucket of its key                                                       *)
IndexAgrees(st) ==
    /\ Cardinality(Cells(st)) = st.c.size
    /\ Indexed(st) = Live(st)
    /\ Cardinality(Indexed(st)) = Cardinality(Cells(st))
    /\ \A c \in Cells(st) :
          c[1] = hash_key(st, st.node[st.c.hash_table[c[1]][c[2]]].key,
                          st.node[st.c.hash_table[c[1]][c[2]]].key_size)

(* the list from head along next holds the live nodes, each once, with     *)
(* prev the inverse of next and tail its last node                         *)
ListAgrees(st, ids) ==
    /\ Len(ids) = st.c.size
    /\ {ids[i] : i \in 1..Len(ids)} = Live(st)
    /\ Cardinality({ids[i] : i \in 1..Len(ids)}) = Len(ids)
    /\ \A i \in 1..Len(ids) :
          /\ st.node[ids[i]].prev = (IF i = 1 THEN NULL ELSE ids[i - 1])
          /\ st.node[ids[i]].next =
                (IF i = Len(ids) THEN NULL ELSE ids[i + 1])
    /\ st.c.tail = (IF ids = <<>> THEN NULL ELSE ids[Len(ids)])

(* C22: between operations every allocated entry has exactly one chain     *)
(* cell, in the bucket its key hashes to, and exactly one position in the  *)
(* recency list; the number of cells and the length of the list are size;  *)
(* prev and next are inverse to each other; and head is null exactly when  *)
(* size is 0, exactly when tail is null.                                   *)
C22_IndexAndListAgree ==
    /\ IndexAgrees(Now)
    /\ ListAgrees(Now, Recency(Now))
    /\ (cache.head = NULL) <=> (cache.size = 0)
    /\ (cache.tail = NULL) <=> (cache.size = 0)

(* two entries whose keys share a bucket, after a get has moved the older *)
(* one from the tail of the list to its head                               *)
C22_Witness ==
    /\ cache.size = 2
    /\ last.op = "get" /\ last.ret = LRU_SUCCESS
    /\ cache.head = 1 /\ cache.tail = 2
    /\ \E h \in DOMAIN cache.hash_table : Len(cache.hash_table[h]) >= 2

RECURSIVE IsPowerOfTwo(_)
IsPowerOfTwo(n) ==
    IF n <= 1 THEN n = 1 ELSE n % 2 = 0 /\ IsPowerOfTwo(n \div 2)

(* C23: the bucket table created for capacity c has a length that is a     *)
(* power of two and at least c / 0.75, that is 3 * length >= 4 * c, and no *)
(* later call, put, delete, clear and resize included, changes the length. *)
C23_TableSizeFixed ==
    /\ [](last.op = "create" =>
            /\ IsPowerOfTwo(cache.hash_table_size)
            /\ 3 * cache.hash_table_size >= 4 * cache.capacity)
    /\ [][/\ cache'.hash_table_size = cache.hash_table_size
          /\ DOMAIN cache'.hash_table = DOMAIN cache.hash_table]_vars

(* ---- threads that look up, put and register the callback: the       ---- *)
(* ---- counter a lookup increments is loaded in one step and stored in ---- *)
(* ---- a later one                                                     ---- *)

(* the two keys the cache holds share a bucket: a lookup of the older one *)
(* passes the cell of the newer one                                       *)
RaceSetups == {<<<<1>>, <<3>>>>}

RaceCalls ==
    {[op |-> "put", key |-> <<1>>, value |-> <<7>>, arg |-> 0],
     [op |-> "peek", key |-> <<1>>, value |-> <<>>, arg |-> 0],
     [op |-> "contains", key |-> <<1>>, value |-> <<>>, arg |-> 0],
     [op |-> "contains", key |-> <<3>>, value |-> <<>>, arg |-> 0]}

(* thread t enters put, peek or contains *)
CallRace(t) ==
    /\ thr[t].pc = "idle"
    /\ \E c \in RaceCalls : Enter(t, c.op, c.key, c.value, c.arg)

(* thread t enters lru_cache_set_eviction_callback, which takes no lock *)
CallSetEvictionCallback(t) ==
    /\ thr[t].pc = "idle"
    /\ nops + Cardinality(Busy) < MaxThreadOps
    /\ \E fn \in BOOLEAN :
          thr' = [thr EXCEPT ![t] = [pc |-> "in",
                                    op |-> "set_eviction_callback",
                                    key |-> <<>>, value |-> <<>>,
                                    arg |-> IF fn THEN 1 ELSE 0]]
    /\ UNCHANGED <<cache, node, cb, ev, out, last, ref, fill, nops, lock, iter>>

(* cache->eviction_fn = eviction_fn, and the return *)
RunSetEvictionCallback(t) ==
    /\ thr[t].pc = "in" /\ thr[t].op = "set_eviction_callback"
    /\ Do(lru_cache_set_eviction_callback(State, thr[t].arg = 1),
          Call(thr[t].op, <<>>, <<>>, thr[t].arg), NoOut, ref)
    /\ thr' = [thr EXCEPT ![t] = Idle]
    /\ UNCHANGED <<fill, lock, iter>>

(* cache->stats.collisions++ in the walk of a reader: the load *)
Load(t) ==
    /\ thr[t].pc = "in" /\ thr[t].op \in {"peek", "contains"}
    /\ thr' = [thr EXCEPT ![t].pc = "mid",
                          ![t].arg = cache.stats.collisions]
    /\ UNCHANGED <<cache, node, cb, ev, out, last, ref, fill, nops, lock, iter>>

(* r is what a lookup makes of st: when it counts collisions, the counter  *)
(* it stores is the one it loaded plus what it counted                     *)
Stored(st, r, loaded) ==
    IF r.st.c.stats.collisions = st.c.stats.collisions THEN r
    ELSE [r EXCEPT !.st.c.stats.collisions =
                      loaded + (@ - st.c.stats.collisions)]

(* the store, the rest of peek, the unlock and the return *)
StorePeek(t) ==
    /\ thr[t].pc = "mid" /\ thr[t].op = "peek"
    /\ Leave(t, Stored(State,
                       lru_cache_peek(State, thr[t].key, Len(thr[t].key), 0),
                       thr[t].arg),
             lru_cache_peek(State, thr[t].key, Len(thr[t].key), 0).out, ref)

(* the store, the rest of contains, the unlock and the return *)
StoreContains(t) ==
    /\ thr[t].pc = "mid" /\ thr[t].op = "contains"
    /\ Leave(t, Stored(State,
                       lru_cache_contains(State, thr[t].key, Len(thr[t].key)),
                       thr[t].arg),
             NoOut, ref)

InitRace == InitSetup({2}, RaceSetups)

NextRace ==
    \E t \in Threads :
        \/ CallRace(t)
        \/ CallSetEvictionCallback(t)
        \/ RunSetEvictionCallback(t)
        \/ Acquire(t)
        \/ RunPut(t)
        \/ Load(t)
        \/ StorePeek(t)
        \/ StoreContains(t)

SpecRace == InitRace /\ [][NextRace]_vars

(* C24: with thread safety on, a step of a thread that changes the cache   *)
(* or its nodes (entries, links, size, capacity, statistics, callback,     *)
(* strategies) is taken while that thread holds the lock for writing.      *)
C24_WritesUnderExclusiveLock ==
    [][\A t \in Threads :
          (/\ cache.thread_safe
           /\ thr'[t] # thr[t]
           /\ (cache' # cache \/ node' # node))
          => lock.writer = t]_vars

(* ---- threads whose calls fail: allocations that return NULL, keys the ---- *)
(* ---- cache does not hold                                              ---- *)

(* the calls of thread t with an error return after the lock is taken *)
ExitCalls(t) ==
    {[op |-> "put", key |-> <<t>>, value |-> <<7>>, arg |-> 0],
     [op |-> "get", key |-> <<t>>, value |-> <<>>, arg |-> 0],
     [op |-> "delete", key |-> <<t>>, value |-> <<>>, arg |-> 0],
     [op |-> "peek", key |-> <<t>>, value |-> <<>>, arg |-> 0]}

CallExit(t) ==
    /\ thr[t].pc = "idle"
    /\ \E c \in ExitCalls(t) : Enter(t, c.op, c.key, c.value, c.arg)

(* put from the lock to the return, any one allocation failing *)
ExitPut(t) ==
    /\ thr[t].pc = "in" /\ thr[t].op = "put"
    /\ \E failAt \in FailPoints :
          Leave(t, lru_cache_put(State, thr[t].key, Len(thr[t].key),
                                 thr[t].value, Len(thr[t].value), failAt),
                NoOut, RefPut(ref, thr[t].key, thr[t].value))

(* get from the lock to the return, the copy of the value failing or not *)
ExitGet(t) ==
    /\ thr[t].pc = "in" /\ thr[t].op = "get"
    /\ \E failAt \in 0..1 :
          \E r \in {lru_cache_get(State, thr[t].key, Len(thr[t].key), failAt)} :
              Leave(t, r, r.out, RefGet(ref, thr[t].key))

(* peek from the lock to the return, the copy of the value failing or not *)
ExitPeek(t) ==
    /\ thr[t].pc = "in" /\ thr[t].op = "peek"
    /\ \E failAt \in 0..1 :
          \E r \in {lru_cache_peek(State, thr[t].key, Len(thr[t].key), failAt)} :
              Leave(t, r, r.out, ref)

(* a full cache of capacity 1 that holds the key of the first thread *)
InitExit == InitSetup({LRU_CACHE_MIN_CAPACITY}, LockSetups)

NextExit ==
    \E t \in Threads :
        \/ CallExit(t)
        \/ CallIteratorCreate(t)
        \/ Acquire(t)
        \/ ExitPut(t)
        \/ ExitGet(t)
        \/ ExitPeek(t)
        \/ RunDelete(t)
        \/ RunIteratorCreate(t)
        \/ IteratorDestroy(t)

SpecExit == InitExit /\ [][NextExit]_vars

(* the read locks thread t holds: one for the call it is in, one for its   *)
(* iterator                                                                *)
ReadLocksOf(t) ==
    (IF thr[t].pc = "in" /\ LockMode(thr[t].op) = "rd" THEN 1 ELSE 0)
        + (IF iter[t].alive /\ iter[t].locked THEN 1 ELSE 0)

(* C25: a thread holds the lock only between taking it and the return of   *)
(* that call, whatever the call returns, or while its iterator is alive:   *)
(* when no call is in progress and no iterator is alive nobody holds it.   *)
C25_LockReleasedOnExit ==
    /\ \A t \in Threads :
          /\ lock.readers[t] = ReadLocksOf(t)
          /\ (lock.writer = t) <=>
                (thr[t].pc = "in" /\ LockMode(thr[t].op) = "wr")
    /\ (\A t \in Threads : thr[t].pc = "idle" /\ ~iter[t].alive)
          => lock = FreeLock

(* a put that evicted and then ran out of memory has returned, and no      *)
(* call is in progress                                                     *)
C25_Witness ==
    /\ last.op = "put" /\ last.ret = LRU_ERROR_NOMEM
    /\ cache.size = 0
    /\ \A t \in Threads : thr[t].pc = "idle" /\ ~iter[t].alive
    /\ lock = FreeLock

====
